---------------------------- MODULE Spec2Model ----------------------------
(***************************************************************************)
(* A model of the experiment-execution engine of                           *)
(* Randomly-Projected-Additive-GPs:                                        *)
(*   rp_experiments.py    _determine_folds, _access_fold, run_experiment   *)
(*   training_routines.py _map_to_optim, create_exact_gp (its check of     *)
(*                        kind), train_exact_gp (its restart phase)        *)
(*                                                                         *)
(* Python lists are 0-based, TLA+ sequences 1-based: fold_starts[i] of the *)
(* source is fold_starts[i + 1] here.  A dataset of n rows is the sequence *)
(* of its row positions 0 .. n-1.  A split fraction is the exact rational  *)
(* <<numerator, denominator>>; for every fraction and dataset size used    *)
(* here the floating-point floor(len * split) and round(1 / split) of the  *)
(* source equal the exact ones.                                            *)
(***************************************************************************)
EXTENDS Integers, Sequences, FiniteSets, TLC

\* ------------------------------------------------------------------ bounds
\* largest dataset of the fold-partition specification
MaxN == 8
\* largest denominator of a split fraction of the fold-partition specification
MaxDen == 5
\* largest dataset of the run_experiment specification
MaxRows == 3
\* largest number of feature columns
MaxFeatures == 3
\* largest repeats argument of run_experiment
MaxRepeats == 2
\* largest error_repeats argument of run_experiment
MaxErrorRepeats == 2
\* largest random_restarts option of train_exact_gp
MaxRestarts == 3
\* largest finite objective value of a restart candidate
MaxLoss == 2
MaxIter == 2
MaxCalls == 2
MaxOuterRepeats == 2
MaxResultRows == 2
MaxDatasets == 2
MaxJ == 9
MaxVal == 2
MaxTrainRows == 2
MaxTestRows == 1

Min(a, b) == IF a < b THEN a ELSE b
Max(a, b) == IF a > b THEN a ELSE b

\* split fractions in lowest terms, 0 < split <= 1
Splits ==
    {s \in (1..MaxDen) \X (1..MaxDen) :
        /\ s[1] <= s[2]
        /\ \A k \in 2..MaxDen : ~(s[1] % k = 0 /\ s[2] % k = 0)}

\* the split fractions run_experiment is run with
RunSplits == {<<1, 2>>, <<1, 3>>}

\* ------------------------------------------------ rp_experiments.py: folds
\* Python's round(num / den) for num >= 0, den > 0: ties go to the even integer
PyRound(num, den) ==
    LET fl == num \div den
        r2 == 2 * (num % den)
    IN  IF r2 < den THEN fl
        ELSE IF r2 > den THEN fl + 1
        ELSE IF fl % 2 = 0 THEN fl ELSE fl + 1

\* int(np.floor(len(dataset) * split))
NPerFold(split, len) == (len * split[1]) \div split[2]

\* int(round(1 / split))
NFolds(split) == PyRound(split[2], split[1])

\* len(dataset) - n_per_fold * n_folds
Remaining(split, len) == len - NPerFold(split, len) * NFolds(split)

\* the loop of _determine_folds from index i on
RECURSIVE FoldLoop(_, _, _, _, _)
FoldLoop(fold_starts_, i, n_folds_, n_per_fold, remaining) ==
    IF i >= n_folds_ THEN fold_starts_
    ELSE FoldLoop(Append(fold_starts_,
                         IF i < remaining
                         THEN fold_starts_[i + 1] + n_per_fold + 1
                         ELSE fold_starts_[i + 1] + n_per_fold),
                  i + 1, n_folds_, n_per_fold, remaining)

\* _determine_folds with the comparison i <= remaining
Mut_determine_folds(split_, len) ==
    FoldLoop(<<0>>, 0, NFolds(split_), NPerFold(split_, len),
             Remaining(split_, len) + 1)

_determine_folds(split_, len) ==
    FoldLoop(<<0>>, 0, NFolds(split_), NPerFold(split_, len),
             Remaining(split_, len))

\* the dataset as the sequence of its row positions
Dataset(len) == [i \in 1..len |-> i - 1]

\* dataset.iloc[a:b] for 0 <= a, 0 <= b: positions past the end are clipped
Iloc(ds, a, b) == SubSeq(ds, Min(a, Len(ds)) + 1, Min(b, Len(ds)))

\* dataset.iloc[a:]
IlocFrom(ds, a) == SubSeq(ds, Min(a, Len(ds)) + 1, Len(ds))

\* _access_fold whose second train segment starts one row late
Mut_access_fold(ds, fold_starts_, fold_) ==
    << Iloc(ds, 0, fold_starts_[fold_ + 1])
         \o IlocFrom(ds, fold_starts_[fold_ + 2] + 1),
       Iloc(ds, fold_starts_[fold_ + 1], fold_starts_[fold_ + 2]) >>

\* <<train, test>>
_access_fold(ds, fold_starts_, fold_) ==
    << Iloc(ds, 0, fold_starts_[fold_ + 1])
         \o IlocFrom(ds, fold_starts_[fold_ + 2]),
       Iloc(ds, fold_starts_[fold_ + 1], fold_starts_[fold_ + 2]) >>

Range(s) == {s[i] : i \in 1..Len(s)}

\* ----------------------------------------------------------------- floats
\* a Python float: a number, np.inf or nan
Num(v) == [k |-> "num", v |-> v]
Inf == [k |-> "inf", v |-> 0]
NaN == [k |-> "nan", v |-> 0]

\* a < b on floats: every comparison with nan is False
FLess(a, b) ==
    /\ a.k # "nan" /\ b.k # "nan"
    /\ \/ a.k = "num" /\ b.k = "inf"
       \/ a.k = "num" /\ b.k = "num" /\ a.v < b.v

\* the objective values a candidate can evaluate to
LossValues == {Num(v) : v \in 0..MaxLoss} \cup {Inf, NaN}

\* Python's None, where a model is expected (candidates are numbered from 0)
None == -1

\* train_kwargs.pop('init_iters', 20)
DefaultInitIters == 20

\* ------------------------------------------------------------------- state
VARIABLES
    \* inputs of run_experiment
    N,              \* len(dataset)
    nfeat,          \* len(features)
    split,          \* split, <<numerator, denominator>>
    cv,             \* cv
    repeats,        \* repeats
    error_repeats,  \* error_repeats
    optimizer,      \* training_options['train_kwargs']['optimizer']
    kind,           \* training_options['kind']
    \* locals of run_experiment
    fold_starts, fold, train, test, succeed, n_errors, repeat, results_list,
    exc,            \* the exception in flight, "" when none
    pc,             \* position in run_experiment
    \* history
    segments,       \* the test segments _access_fold returned, in order
    attempted,      \* folds whose try block was entered
    trainer_raised, \* folds in which a call of training_routine raised
    trainer_returned, \* folds in which a call of training_routine returned
    other_raised,   \* folds in which tensor preparation or a metric raised
    trainer_calls,  \* the calls of training_routine made in the current fold
    \* train_exact_gp: arguments and options
    random_restarts,      \* train_kwargs['random_restarts']
    skip_random_restart,  \* skip_random_restart
    \* train_exact_gp: locals
    restart, best_loss, best_model, model,
    texc,           \* the exception train_exact_gp raised, "" when none
    tpc,            \* position in train_exact_gp
    \* train_exact_gp: history
    losses,         \* the objective of each candidate, in order of creation
    max_iter,       \* train_kwargs['max_iter'] as the caller passed it
    init_iters,     \* train_kwargs.pop('init_iters', 20)
    created,        \* how many times create_exact_gp has returned a model
    conv_calls,     \* the calls of train_to_convergence made, in order
    heap,           \* the dictionaries: object number -> keys and values
    model_kwargs,   \* the object the local model_kwargs is bound to, 0 if none
    train_kwargs,   \* likewise the local train_kwargs
    initial_train_kwargs, \* likewise initial_train_kwargs
    passed,         \* what the caller's two dictionaries held at each call
    \* run_experiment_suite and rp_compare_ablation
    dataset_group,  \* the tag passed as "datasets" to run_experiment_suite
    outer_repeats,
    result_rows,    \* how many rows a returning run_experiment call yields
    datasets,       \* the list of dataset names
    pass,           \* the i of "for i in range(outer_repeats)"
    di,             \* the position of "for dataset in datasets", from 1
    df,             \* the running combined table, a sequence of rows
    checkpoint,     \* the content of the csv file; <<>> while writes = 0
    prev_checkpoint, \* the content the last to_csv replaced
    writes,         \* how many times to_csv has been called
    runs,           \* the run_experiment calls started, in order
    sexc,           \* the exception that ended the routine, "" if none
    spc,            \* position in the routine
    max_j, J_1, J_2, J,
    \* _normalize_by_train, on one column and with two test sets
    ntrain, ntest, ntest_alt,
    nout, nout_alt, \* what the two calls returned
    npc

inputs == <<N, nfeat, split, cv, repeats, error_repeats, optimizer, kind>>
locals == <<fold_starts, fold, train, test, succeed, n_errors, repeat,
            results_list, exc, pc>>
history == <<segments, attempted, trainer_raised, trainer_returned,
             other_raised, trainer_calls>>
kvars == <<heap, model_kwargs, train_kwargs, initial_train_kwargs, passed>>
tvars == <<random_restarts, skip_random_restart, restart, best_loss,
           best_model, model, texc, tpc, losses, max_iter, init_iters,
           created, conv_calls, kvars>>
svars == <<dataset_group, outer_repeats, result_rows, datasets, pass, di, df,
           checkpoint, prev_checkpoint, writes, runs, sexc, spc, max_j, J_1,
           J_2, J>>
nvars == <<ntrain, ntest, ntest_alt, nout, nout_alt, npc>>
xvars == <<svars, nvars>>
vars == <<inputs, locals, history, tvars, xvars>>

n_folds == Len(fold_starts) - 1

\* ------------------------------------- training_routines.py: option checks
Optimizers == {"adam", "rmsprop"}
Kinds == {"rp_poly", "pca_rp"}

\* the optimizer class, or "ValueError" for raise ValueError("Unknown optimizer")
_map_to_optim(optimizer_) ==
    IF optimizer_ = "adam" THEN "Adam"
    ELSE IF optimizer_ = "sgd" THEN "SGD"
    ELSE IF optimizer_ = "lbfgs" THEN "LBFGS"
    ELSE "ValueError"

\* the kinds create_exact_gp accepts
KnownKinds ==
    {"full", "rp", "strictly_additive", "additive", "rp_poly",
     "deep_rp_poly", "general_rp_poly", "multi_full", "duvenaud_additive",
     "additive_rp", "sgpr"}

\* how a call training_routine(trainX, trainY, testX, testY, **options) of
\* train_exact_gp can end: "ok" (it returns), "Exception" (model
\* construction or optimisation raises), "ValueError" (_map_to_optim or
\* create_exact_gp rejects the options, before any numerical work)
TrainerOutcomes ==
    IF _map_to_optim(optimizer) = "ValueError" THEN {"ValueError"}
    ELSE IF kind \notin KnownKinds THEN {"ValueError"}
    ELSE {"ok", "Exception"}

\* ------------------------------------------ rp_experiments.py: run_experiment
\* the success record with the feature count of the error record
MutSuccessRecord ==
    [fold |-> fold, repeat |-> repeat, n |-> N, d |-> nfeat - 2]

\* result_dict of a completed repeat (metric values left out)
SuccessRecord ==
    [fold |-> fold, repeat |-> repeat, n |-> N, d |-> nfeat]

\* result_dict of the except handler; error is the trace, named by the
\* class of the exception it ends with
ErrorRecord ==
    [error |-> exc, fold |-> fold, n |-> N, d |-> nfeat - 2]

IsError(r) == "error" \in DOMAIN r
IsSuccess(r) == "repeat" \in DOMAIN r

\* succeed set only once the last repeat has completed
MutSucceedAfterRepeat == repeat + 1 >= repeats

\* succeed = True, at the end of every completed repeat
SucceedAfterRepeat == TRUE

\* the error counter carried over from the fold before
MutNErrorsAtFoldStart == n_errors

\* n_errors = 0, before the while loop of every fold
NErrorsAtFoldStart == 0

\* the loop condition with <= for <
MutWhileCond == ~succeed /\ n_errors <= error_repeats

\* while not succeed and n_errors < error_repeats
WhileCond == ~succeed /\ n_errors < error_repeats

\* "if not cv and fold > 0: break", or range(n_folds) is exhausted
FoldLoopEnds == fold >= n_folds \/ (~cv /\ fold > 0)

\* the dictionaries of one call: the two the caller passes (1 model_kwargs,
\* 2 train_kwargs), the two copies (3, 4), initial_train_kwargs (5) and the
\* kwargs of create_exact_gp (6)
Objects == 1..6

\* an object that does not exist (yet)
NoDict == [unbound |-> TRUE]

\* no call of train_exact_gp is modelled step by step
TrainIdle ==
    /\ random_restarts = 1 /\ skip_random_restart = FALSE
    /\ restart = 0 /\ best_loss = Inf /\ best_model = None /\ model = None
    /\ texc = "" /\ tpc = "idle" /\ losses = <<>>
    /\ max_iter = 1 /\ init_iters = 1 /\ created = 0 /\ conv_calls = <<>>
    /\ heap = [o \in Objects |-> NoDict]
    /\ model_kwargs = 0 /\ train_kwargs = 0 /\ initial_train_kwargs = 0
    /\ passed = <<>>

\* neither run_experiment_suite nor rp_compare_ablation is running
SuiteIdle ==
    /\ dataset_group = "" /\ outer_repeats = 0 /\ result_rows = 0
    /\ datasets = <<>> /\ pass = 0 /\ di = 1 /\ df = <<>>
    /\ checkpoint = <<>> /\ prev_checkpoint = <<>> /\ writes = 0
    /\ runs = <<>> /\ sexc = "" /\ spc = "idle"
    /\ max_j = 0 /\ J_1 = 0 /\ J_2 = 0 /\ J = 0

\* no call of _normalize_by_train is modelled step by step
NormIdle ==
    /\ ntrain = <<>> /\ ntest = <<>> /\ ntest_alt = <<>>
    /\ nout = <<>> /\ nout_alt = <<>> /\ npc = "idle"

\* no call of run_experiment is modelled step by step
RunIdle ==
    /\ N = 1 /\ nfeat = 1 /\ split = <<1, 1>> /\ cv = TRUE
    /\ repeats = 1 /\ error_repeats = 1
    /\ optimizer = "adam" /\ kind = "rp_poly"
    /\ fold_starts = <<>> /\ fold = 0 /\ train = <<>> /\ test = <<>>
    /\ succeed = FALSE /\ n_errors = 0 /\ repeat = 0 /\ results_list = <<>>
    /\ exc = "" /\ pc = "idle"
    /\ segments = <<>> /\ attempted = {} /\ trainer_raised = {}
    /\ trainer_returned = {} /\ other_raised = {}
    /\ trainer_calls = 0

Init ==
    /\ N \in {MaxRows - 1, MaxRows}
    /\ nfeat \in {MaxFeatures - 1, MaxFeatures}
    /\ split \in RunSplits
    /\ cv \in BOOLEAN
    /\ repeats \in 0..MaxRepeats
    /\ error_repeats \in 0..MaxErrorRepeats
    /\ optimizer \in Optimizers
    /\ kind \in Kinds
    /\ fold_starts = <<>> /\ fold = 0 /\ train = <<>> /\ test = <<>>
    /\ succeed = FALSE /\ n_errors = 0 /\ repeat = 0 /\ results_list = <<>>
    /\ exc = "" /\ pc = "start"
    /\ segments = <<>> /\ attempted = {} /\ trainer_raised = {}
    /\ trainer_returned = {} /\ other_raised = {}
    /\ trainer_calls = 0
    /\ SuiteIdle /\ NormIdle
    /\ TrainIdle

\* the head of "for fold in range(n_folds)" and the body up to the while loop
FoldBegin ==
    /\ pc = "fold"
    /\ ~FoldLoopEnds
    /\ LET tt == _access_fold(Dataset(N), fold_starts, fold)
       IN  /\ train' = tt[1]
           /\ test' = tt[2]
           /\ segments' = Append(segments, tt[2])
    /\ succeed' = FALSE
    /\ n_errors' = NErrorsAtFoldStart
    /\ pc' = "while"
    /\ trainer_calls' = 0
    /\ UNCHANGED <<xvars, tvars, inputs, fold_starts, fold, repeat, results_list, exc,
                   attempted, trainer_raised, trainer_returned, other_raised>>

\* the fold loop ends: results = pd.DataFrame(results_list); return results
Return ==
    /\ pc = "fold"
    /\ FoldLoopEnds
    /\ pc' = "done"
    /\ UNCHANGED <<xvars, tvars, inputs, fold_starts, fold, train, test, succeed, n_errors,
                   repeat, results_list, exc, history>>

\* the while condition holds: the try block is entered
WhileEnter ==
    /\ pc = "while"
    /\ WhileCond
    /\ attempted' = attempted \cup {fold}
    /\ pc' = "try"
    /\ UNCHANGED <<xvars, tvars, inputs, fold_starts, fold, train, test, succeed, n_errors,
                   repeat, results_list, exc, segments, trainer_raised,
                   trainer_returned, other_raised, trainer_calls>>

\* the while condition fails: on to the next fold
WhileExit ==
    /\ pc = "while"
    /\ ~WhileCond
    /\ fold' = fold + 1
    /\ pc' = "fold"
    /\ UNCHANGED <<xvars, tvars, inputs, fold_starts, train, test, succeed, n_errors,
                   repeat, results_list, exc, history>>

\* trainX, trainY, testX, testY = torch.tensor(...): returns or raises
TensorPrep ==
    /\ pc = "try"
    /\ \/ /\ repeat' = 0
          /\ pc' = "repeat"
          /\ UNCHANGED <<exc, other_raised>>
       \/ /\ exc' = "Exception"
          /\ other_raised' = other_raised \cup {fold}
          /\ pc' = "except"
          /\ UNCHANGED repeat
    /\ UNCHANGED <<xvars, tvars, inputs, fold_starts, fold, train, test, succeed, n_errors,
                   results_list, segments, attempted, trainer_raised,
                   trainer_returned, trainer_calls>>

\* one iteration of "for repeat in range(repeats)": the trainer is called,
\* the metrics are computed, the record is appended and succeed is set
RepeatBody ==
    /\ pc = "repeat"
    /\ repeat < repeats
    /\ trainer_calls' = trainer_calls + 1
    /\ \E out \in TrainerOutcomes :
          \/ /\ out = "ok"
             /\ trainer_returned' = trainer_returned \cup {fold}
             /\ \/ /\ results_list' = Append(results_list, SuccessRecord)
                   /\ succeed' = SucceedAfterRepeat
                   /\ repeat' = repeat + 1
                   /\ UNCHANGED <<exc, other_raised, pc>>
                \/ /\ exc' = "Exception"
                   /\ other_raised' = other_raised \cup {fold}
                   /\ pc' = "except"
                   /\ UNCHANGED <<results_list, succeed, repeat>>
             /\ UNCHANGED trainer_raised
          \/ /\ out # "ok"
             /\ trainer_raised' = trainer_raised \cup {fold}
             /\ exc' = out
             /\ pc' = "except"
             /\ UNCHANGED <<results_list, succeed, repeat, trainer_returned,
                            other_raised>>
    /\ UNCHANGED <<xvars, tvars, inputs, fold_starts, fold, train, test, n_errors,
                   segments, attempted>>

\* range(repeats) is exhausted: the try block ends without an exception
RepeatsDone ==
    /\ pc = "repeat"
    /\ repeat >= repeats
    /\ pc' = "while"
    /\ UNCHANGED <<xvars, tvars, inputs, fold_starts, fold, train, test, succeed, n_errors,
                   repeat, results_list, exc, history>>

\* except Exception: the error record is appended, n_errors += 1
Except ==
    /\ pc = "except"
    /\ results_list' = Append(results_list, ErrorRecord)
    /\ n_errors' = n_errors + 1
    /\ exc' = ""
    /\ pc' = "while"
    /\ UNCHANGED <<xvars, tvars, inputs, fold_starts, fold, train, test, succeed, repeat,
                   history>>

\* cols, features, fold_starts, n_folds, results_list = []
DetermineFolds ==
    /\ pc = "start"
    /\ fold_starts' = _determine_folds(split, N)
    /\ pc' = "fold"
    /\ UNCHANGED <<xvars, tvars, inputs, fold, train, test, succeed, n_errors, repeat,
                   results_list, exc, history>>

Next ==
    \/ DetermineFolds
    \/ FoldBegin
    \/ Return
    \/ WhileEnter
    \/ WhileExit
    \/ TensorPrep
    \/ RepeatBody
    \/ RepeatsDone
    \/ Except

Spec == Init /\ [][Next]_vars

\* run_experiment is one sequential call: it takes its next step whenever
\* it has one
SpecLive == Init /\ [][Next]_vars /\ WF_vars(Next)

\* --------------------------------------- the fold partition on its own
InitFolds ==
    /\ N \in 0..MaxN
    /\ split \in Splits
    /\ nfeat = 1 /\ cv = TRUE /\ repeats = 1 /\ error_repeats = 1
    /\ optimizer = "adam" /\ kind = "rp_poly"
    /\ fold_starts = <<>> /\ fold = 0 /\ train = <<>> /\ test = <<>>
    /\ succeed = FALSE /\ n_errors = 0 /\ repeat = 0 /\ results_list = <<>>
    /\ exc = "" /\ pc = "start"
    /\ segments = <<>> /\ attempted = {} /\ trainer_raised = {}
    /\ trainer_returned = {} /\ other_raised = {}
    /\ trainer_calls = 0
    /\ SuiteIdle /\ NormIdle
    /\ TrainIdle

\* train, test = _access_fold(dataset, fold_starts, fold)
FoldsAccess ==
    /\ pc = "fold"
    /\ fold < n_folds
    /\ LET tt == _access_fold(Dataset(N), fold_starts, fold)
       IN  /\ train' = tt[1]
           /\ test' = tt[2]
           /\ segments' = Append(segments, tt[2])
    /\ pc' = "accessed"
    /\ UNCHANGED <<xvars, tvars, inputs, fold_starts, fold, succeed, n_errors,
                   repeat, results_list, exc, attempted, trainer_raised,
                   trainer_returned, other_raised, trainer_calls>>

\* the next index of "for fold in range(n_folds)"
FoldsAdvance ==
    /\ pc = "accessed"
    /\ fold' = fold + 1
    /\ pc' = "fold"
    /\ UNCHANGED <<xvars, tvars, inputs, fold_starts, train, test, succeed,
                   n_errors, repeat, results_list, exc, history>>

NextFolds == DetermineFolds \/ FoldsAccess \/ FoldsAdvance

SpecFolds == InitFolds /\ [][NextFolds]_vars

\* ------------------------------------ training_routines.py: train_exact_gp
\* a truncated call: initial_train_kwargs is a copy of train_kwargs with
\* max_iter = init_iters
InitialCall(m) == [model |-> m, max_iter |-> init_iters]

\* the final call: train_kwargs, which the copy left as the caller set it
FinalCall(m) == [model |-> m, max_iter |-> max_iter]

\* the objects the caller passes as model_kwargs and train_kwargs
CallerModelKwargs == 1
CallerTrainKwargs == 2

\* the caller's model options, values as written (k may be the string 'd')
CallerModelOptions(k) ==
    [k |-> k, J |-> "1", noise_prior |-> "True", kernel_type |-> "RBF"]

\* the caller's training options
CallerTrainOptions ==
    [random_restarts |-> random_restarts, init_iters |-> init_iters,
     optimizer |-> optimizer, rr_check_conv |-> FALSE, max_iter |-> max_iter]

\* dct without the keys popped from it
Without(dct, keys) == [k \in DOMAIN dct \ keys |-> dct[k]]

\* dct[key] = val
With(dct, key, val) ==
    [k \in DOMAIN dct \cup {key} |-> IF k = key THEN val ELSE dct[k]]

\* for k, v in model_kwargs.items(): if v == 'd': model_kwargs[k] = d
ReplaceD(dct) ==
    [k \in DOMAIN dct |-> IF dct[k] = "d" THEN ToString(nfeat) ELSE dct[k]]

\* create_exact_gp(..., **model_kwargs): kwargs is a new dictionary, from
\* which noise_prior, init_noise_range, grid_size and grid_ratio are popped
CreateKwargs(dct) ==
    Without(dct, {"noise_prior", "init_noise_range", "grid_size",
                  "grid_ratio"})

\* no copy: the local name is bound to the dictionary that was passed
MutCopyRef(ref, fresh) == ref

\* x = copy.copy(x): the local name is bound to a new dictionary
CopyRef(ref, fresh) == fresh

InitTrain ==
    /\ random_restarts \in 0..MaxRestarts
    /\ skip_random_restart \in BOOLEAN
    /\ optimizer \in Optimizers
    /\ kind \in Kinds
    /\ restart = 0 /\ best_loss = Inf /\ best_model = None /\ model = None
    /\ texc = "" /\ tpc = "start" /\ losses = <<>>
    /\ max_iter \in 1..MaxIter
    /\ init_iters \in (1..MaxIter) \cup {DefaultInitIters}
    /\ created = 0 /\ conv_calls = <<>>
    /\ \E k \in {"1", "d"} :
          heap = [o \in Objects |->
                    IF o = CallerModelKwargs THEN CallerModelOptions(k)
                    ELSE IF o = CallerTrainKwargs THEN CallerTrainOptions
                    ELSE NoDict]
    /\ model_kwargs = 0 /\ train_kwargs = 0 /\ initial_train_kwargs = 0
    /\ passed = <<>>
    /\ N = 1 /\ nfeat = 1 /\ split = <<1, 1>> /\ cv = TRUE
    /\ repeats = 1 /\ error_repeats = 1
    /\ fold_starts = <<>> /\ fold = 0 /\ train = <<>> /\ test = <<>>
    /\ succeed = FALSE /\ n_errors = 0 /\ repeat = 0 /\ results_list = <<>>
    /\ exc = "" /\ pc = "idle"
    /\ segments = <<>> /\ attempted = {} /\ trainer_raised = {}
    /\ trainer_returned = {} /\ other_raised = {}
    /\ trainer_calls = 0
    /\ SuiteIdle /\ NormIdle

\* the options are copied and popped, the optimizer is mapped, and
\* best_model, best_likelihood, best_mll = None, best_loss = np.inf
TrainBegin ==
    /\ tpc = "start"
    /\ passed' = Append(passed, <<heap[CallerModelKwargs],
                                  heap[CallerTrainKwargs]>>)
    /\ LET mk == CopyRef(CallerModelKwargs, 3)
           tk == CopyRef(CallerTrainKwargs, 4)
           h1 == [heap EXCEPT ![3] = heap[CallerModelKwargs],
                              ![4] = heap[CallerTrainKwargs]]
           h2 == [h1 EXCEPT ![mk] = ReplaceD(h1[mk])]
           h3 == [h2 EXCEPT ![tk] = Without(h2[tk], {"random_restarts",
                                                      "init_iters"})]
           h4 == [h3 EXCEPT ![tk] = Without(h3[tk], {"optimizer"})]
           h5 == [h4 EXCEPT ![tk] = Without(h4[tk], {"rr_check_conv"})]
           h6 == [h5 EXCEPT ![5] = With(With(h5[tk], "max_iter", init_iters),
                                         "check_conv", FALSE)]
       IN  /\ model_kwargs' = mk
           /\ train_kwargs' = tk
           /\ IF "optimizer" \notin DOMAIN h3[tk]
              THEN /\ texc' = "KeyError"
                   /\ tpc' = "raised"
                   /\ heap' = h3
                   /\ UNCHANGED <<best_model, best_loss, initial_train_kwargs>>
              ELSE IF _map_to_optim(optimizer) = "ValueError"
              THEN /\ texc' = "ValueError"
                   /\ tpc' = "raised"
                   /\ heap' = h4
                   /\ UNCHANGED <<best_model, best_loss, initial_train_kwargs>>
              ELSE /\ best_model' = None
                   /\ best_loss' = Inf
                   /\ tpc' = IF ~skip_random_restart THEN "restarts"
                                                     ELSE "create"
                   /\ heap' = h6
                   /\ initial_train_kwargs' = 5
                   /\ UNCHANGED texc
    /\ UNCHANGED <<random_restarts, skip_random_restart, restart, model,
                   losses, max_iter, init_iters, created, conv_calls,
                   inputs, locals, history, xvars>>

\* one restart: a candidate is created, trained for init_iters iterations
\* and evaluated, and kept if its loss is below best_loss
RestartIter ==
    /\ tpc = "restarts"
    /\ restart < random_restarts
    /\ \/ /\ kind \notin KnownKinds
          /\ texc' = "ValueError"
          /\ tpc' = "raised"
          /\ UNCHANGED <<restart, best_loss, best_model, losses, created,
                         conv_calls, heap>>
       \/ /\ kind \in KnownKinds
          /\ texc' = "Exception"
          /\ tpc' = "raised"
          /\ UNCHANGED <<restart, best_loss, best_model, losses, created,
                         conv_calls, heap>>
       \/ /\ kind \in KnownKinds
          /\ created' = created + 1
          /\ conv_calls' = Append(conv_calls, InitialCall(restart))
          /\ heap' = [heap EXCEPT ![6] = CreateKwargs(heap[model_kwargs])]
          /\ \/ /\ texc' = "Exception"
                /\ tpc' = "raised"
                /\ UNCHANGED <<restart, best_loss, best_model, losses>>
             \/ /\ \E loss \in LossValues :
                      /\ losses' = Append(losses, loss)
                      /\ IF FLess(loss, best_loss)
                         THEN best_loss' = loss /\ best_model' = restart
                         ELSE UNCHANGED <<best_loss, best_model>>
                /\ restart' = restart + 1
                /\ UNCHANGED <<texc, tpc>>
    /\ UNCHANGED <<random_restarts, skip_random_restart, model, max_iter,
                   init_iters, model_kwargs, train_kwargs,
                   initial_train_kwargs, passed, inputs, locals, history,
                   xvars>>

\* after the restarts: model = best_model, likelihood, mll likewise
RestartsDone ==
    /\ tpc = "restarts"
    /\ restart >= random_restarts
    /\ model' = best_model
    /\ tpc' = "final"
    /\ UNCHANGED <<random_restarts, skip_random_restart, restart, best_loss,
                   best_model, texc, losses, max_iter, init_iters, created,
                   conv_calls, kvars, inputs, locals, history, xvars>>

\* restarts skipped: one candidate (number 0) is created
SkipCreate ==
    /\ tpc = "create"
    /\ \/ /\ kind \notin KnownKinds
          /\ texc' = "ValueError"
          /\ tpc' = "raised"
          /\ UNCHANGED <<model, created, heap>>
       \/ /\ kind \in KnownKinds
          /\ texc' = "Exception"
          /\ tpc' = "raised"
          /\ UNCHANGED <<model, created, heap>>
       \/ /\ kind \in KnownKinds
          /\ model' = 0
          /\ created' = created + 1
          /\ heap' = [heap EXCEPT ![6] = CreateKwargs(heap[model_kwargs])]
          /\ tpc' = "final"
          /\ UNCHANGED texc
    /\ UNCHANGED <<random_restarts, skip_random_restart, restart, best_loss,
                   best_model, losses, max_iter, init_iters, conv_calls,
                   model_kwargs, train_kwargs, initial_train_kwargs, passed,
                   inputs, locals, history, xvars>>

\* the final fit: train_to_convergence(model, ...) with train_kwargs; it
\* cannot return when model is None
FinalFit ==
    /\ tpc = "final"
    /\ conv_calls' = Append(conv_calls, FinalCall(model))
    /\ \/ /\ model # None
          /\ tpc' = "fitted"
          /\ UNCHANGED texc
       \/ /\ texc' = "Exception"
          /\ tpc' = "raised"
    /\ UNCHANGED <<random_restarts, skip_random_restart, restart, best_loss,
                   best_model, model, losses, max_iter, init_iters, created,
                   kvars, inputs, locals, history, xvars>>

\* evaluation, _save_state_dict, return model_metrics, pred_mean, model
TrainReturn ==
    /\ tpc = "fitted"
    /\ tpc' = "done"
    /\ UNCHANGED <<random_restarts, skip_random_restart, restart, best_loss,
                   best_model, model, texc, losses, max_iter, init_iters,
                   created, conv_calls, kvars, inputs, locals, history,
                   xvars>>

\* the next call by run_experiment, training_routine(..., **training_options):
\* the same two dictionaries are passed, the locals of the last call are gone
TrainAgain ==
    /\ tpc \in {"done", "raised"}
    /\ Len(passed) < MaxCalls
    /\ tpc' = "start"
    /\ texc' = ""
    /\ restart' = 0 /\ best_loss' = Inf /\ best_model' = None /\ model' = None
    /\ losses' = <<>> /\ created' = 0 /\ conv_calls' = <<>>
    /\ heap' = [o \in Objects |->
                  IF o \in {CallerModelKwargs, CallerTrainKwargs}
                  THEN heap[o] ELSE NoDict]
    /\ model_kwargs' = 0 /\ train_kwargs' = 0 /\ initial_train_kwargs' = 0
    /\ UNCHANGED <<random_restarts, skip_random_restart, max_iter, init_iters,
                   passed, inputs, locals, history, xvars>>

NextTrain ==
    \/ TrainBegin
    \/ RestartIter
    \/ RestartsDone
    \/ SkipCreate
    \/ FinalFit
    \/ TrainReturn
    \/ TrainAgain

SpecTrain == InitTrain /\ [][NextTrain]_vars

\* -------------------------------- rp_experiments.py: run_experiment_suite
get_small_datasets ==
    <<"challenger", "fertility", "concreteslump", "autos", "servo",
      "breastcancer", "machine", "yacht", "autompg", "housing", "forest",
      "stock", "pendulum", "energy">>

get_medium_datasets ==
    <<"concrete", "solar", "airfoil", "wine", "gas", "skillcraft", "sml",
      "parkinsons", "pumadyn32nm">>

get_big_datasets ==
    <<"pol", "elevators", "bike", "kin40k", "protein", "tamielectric",
      "keggdirected", "slice", "keggundirected", "3droad", "song", "buzz",
      "houseelectric">>

get_datasets == get_small_datasets \o get_medium_datasets \o get_big_datasets

\* the tags of the if / elif chain
KnownGroups == {"small", "medium", "big", "smalltomedium", "all"}

\* the tags a caller is taken to pass
GroupTags == KnownGroups \cup {"small-to-medium", "huge"}

\* the two lists of the smalltomedium branch in the other order
MutResolveGroup(tag) ==
    CASE tag = "small" -> get_small_datasets
      [] tag = "medium" -> get_medium_datasets
      [] tag = "big" -> get_big_datasets
      [] tag = "smalltomedium" -> get_medium_datasets \o get_small_datasets
      [] tag = "all" -> get_datasets

\* the branch of the if / elif chain a known tag takes
ResolveGroup(tag) ==
    CASE tag = "small" -> get_small_datasets
      [] tag = "medium" -> get_medium_datasets
      [] tag = "big" -> get_big_datasets
      [] tag = "smalltomedium" -> get_small_datasets \o get_medium_datasets
      [] tag = "all" -> get_datasets

\* the frame a returning run_experiment call yields
Result == [k \in 1..result_rows |-> [row |-> k]]

\* result['dataset'] = dataset
TagDataset(result, dataset) ==
    [k \in DOMAIN result |-> [row |-> result[k].row, dataset |-> dataset]]

\* the new table is the newest result alone
MutConcat(d, result) == result

\* the result overwrites the last row of the table
MutConcatOverLast(d, result) ==
    IF d = <<>> THEN result ELSE SubSeq(d, 1, Len(d) - 1) \o result

\* pd.concat([df, result])
Concat(d, result) == d \o result

InitSuite ==
    /\ dataset_group \in GroupTags
    /\ outer_repeats \in 0..MaxOuterRepeats
    /\ result_rows \in 0..MaxResultRows
    /\ datasets = <<>> /\ pass = 0 /\ di = 1 /\ df = <<>>
    /\ checkpoint = <<>> /\ prev_checkpoint = <<>> /\ writes = 0
    /\ runs = <<>> /\ sexc = "" /\ spc = "resolve"
    /\ max_j = 0 /\ J_1 = 0 /\ J_2 = 0 /\ J = 0
    /\ RunIdle /\ TrainIdle /\ NormIdle

\* df = pd.DataFrame() and the if / elif chain over the tag
SuiteResolve ==
    /\ spc = "resolve"
    /\ IF dataset_group \in KnownGroups
       THEN /\ datasets' = ResolveGroup(dataset_group)
            /\ spc' = "loop"
            /\ UNCHANGED sexc
       ELSE /\ sexc' = "ValueError"
            /\ spc' = "raised"
            /\ UNCHANGED datasets
    /\ df' = <<>>
    /\ UNCHANGED <<dataset_group, outer_repeats, result_rows, pass, di,
                   checkpoint, prev_checkpoint, writes, runs, max_j, J_1,
                   J_2, J, nvars, tvars, inputs, locals, history>>

\* one dataset of one pass: run_experiment returns and its rows are tagged,
\* appended and written, or it raises and the routine ends
SuiteStep ==
    /\ spc = "loop"
    /\ pass < outer_repeats
    /\ di <= Len(datasets)
    /\ runs' = Append(runs, datasets[di])
    /\ \/ /\ sexc' = "Exception"
          /\ spc' = "raised"
          /\ UNCHANGED <<df, checkpoint, prev_checkpoint, writes, pass, di>>
       \/ /\ df' = Concat(df, TagDataset(Result, datasets[di]))
          /\ checkpoint' = df'
          /\ prev_checkpoint' = checkpoint
          /\ writes' = writes + 1
          /\ IF di = Len(datasets)
             THEN pass' = pass + 1 /\ di' = 1
             ELSE di' = di + 1 /\ UNCHANGED pass
          /\ UNCHANGED <<sexc, spc>>
    /\ UNCHANGED <<dataset_group, outer_repeats, result_rows, datasets,
                   max_j, J_1, J_2, J, nvars, tvars, inputs, locals,
                   history>>

\* return df
SuiteReturn ==
    /\ spc = "loop"
    /\ pass >= outer_repeats \/ datasets = <<>>
    /\ spc' = "done"
    /\ UNCHANGED <<dataset_group, outer_repeats, result_rows, datasets, pass,
                   di, df, checkpoint, prev_checkpoint, writes, runs, sexc,
                   max_j, J_1, J_2, J, nvars, tvars, inputs, locals,
                   history>>

NextSuite == SuiteResolve \/ SuiteStep \/ SuiteReturn

SpecSuite == InitSuite /\ [][NextSuite]_vars

\* --------------------------------- rp_experiments.py: rp_compare_ablation
\* result['RP'] = True, result['J'] = ..., result['dataset'] = dataset
TagAblation(result, dataset, j) ==
    [k \in DOMAIN result |->
        [row |-> result[k].row, RP |-> TRUE, J |-> j, dataset |-> dataset]]

\* the sweep goes on while J_1 + J_2 <= max_j
MutSweepCond == J_1 + J_2 <= max_j

\* while J_1 + J_2 < max_j
SweepCond == J_1 + J_2 < max_j

InitAblation ==
    /\ datasets \in {SubSeq(get_small_datasets, 1, n) : n \in 0..MaxDatasets}
    /\ max_j \in 0..MaxJ
    /\ result_rows \in 0..MaxResultRows
    /\ dataset_group = "" /\ outer_repeats = 0 /\ pass = 0
    /\ di = 1 /\ df = <<>>
    /\ checkpoint = <<>> /\ prev_checkpoint = <<>> /\ writes = 0
    /\ runs = <<>> /\ sexc = "" /\ spc = "dataset"
    /\ J_1 = 0 /\ J_2 = 0 /\ J = 0
    /\ RunIdle /\ TrainIdle /\ NormIdle

\* the next dataset: J_2 = 0, J_1 = 1, J = J_1 + J_2
AblationDataset ==
    /\ spc = "dataset"
    /\ di <= Len(datasets)
    /\ J_2' = 0
    /\ J_1' = 1
    /\ J' = J_1' + J_2'
    /\ spc' = "while"
    /\ UNCHANGED <<dataset_group, outer_repeats, result_rows, datasets, pass,
                   di, df, checkpoint, prev_checkpoint, writes, runs, sexc,
                   max_j, nvars, tvars, inputs, locals, history>>

\* one sweep step: the next J, run_experiment with it, and, if that
\* returns, the rows tagged, appended and written to filename
AblationStep ==
    /\ spc = "while"
    /\ SweepCond
    /\ J' = J_1 + J_2
    /\ J_2' = J_1
    /\ J_1' = J'
    /\ runs' = Append(runs, [dataset |-> datasets[di], J |-> J'])
    /\ \/ /\ sexc' = "Exception"
          /\ spc' = "raised"
          /\ UNCHANGED <<df, checkpoint, prev_checkpoint, writes>>
       \/ /\ df' = Concat(df, TagAblation(Result, datasets[di], J'))
          /\ checkpoint' = df'
          /\ prev_checkpoint' = checkpoint
          /\ writes' = writes + 1
          /\ UNCHANGED <<sexc, spc>>
    /\ UNCHANGED <<dataset_group, outer_repeats, result_rows, datasets, pass,
                   di, max_j, nvars, tvars, inputs, locals, history>>

\* the while loop of one dataset ends
AblationSweepEnd ==
    /\ spc = "while"
    /\ ~SweepCond
    /\ di' = di + 1
    /\ spc' = "dataset"
    /\ UNCHANGED <<dataset_group, outer_repeats, result_rows, datasets, pass,
                   df, checkpoint, prev_checkpoint, writes, runs, sexc,
                   max_j, J_1, J_2, J, nvars, tvars, inputs, locals,
                   history>>

\* the loop over the datasets ends
AblationReturn ==
    /\ spc = "dataset"
    /\ di > Len(datasets)
    /\ spc' = "done"
    /\ UNCHANGED <<dataset_group, outer_repeats, result_rows, datasets, pass,
                   di, df, checkpoint, prev_checkpoint, writes, runs, sexc,
                   max_j, J_1, J_2, J, nvars, tvars, inputs, locals,
                   history>>

NextAblation ==
    \/ AblationDataset
    \/ AblationStep
    \/ AblationSweepEnd
    \/ AblationReturn

SpecAblation == InitAblation /\ [][NextAblation]_vars

\* --------------------------------- rp_experiments.py: _normalize_by_train
\* One column (a feature or the target) is a sequence of integers. Results
\* are kept exact: a centered column is a sequence of numerators over one
\* denominator, a variance a numerator over a denominator, and a zero
\* denominator stands for nan.
RECURSIVE SumSeq(_)
SumSeq(q) == IF q = <<>> THEN 0 ELSE Head(q) + SumSeq(Tail(q))

Columns(m) == UNION {[1..k -> 0..MaxVal] : k \in 0..m}

\* train[...].mean(): the sum over the number of rows
Mean(col) == [num |-> SumSeq(col), den |-> Len(col)]

\* col -= mu
Minus(col, mu) ==
    [nums |-> [k \in DOMAIN col |-> mu.den * col[k] - mu.num], den |-> mu.den]

\* the square of c.std(): the sum of squared deviations from the mean of c,
\* over the number of rows less one
Variance(c) ==
    LET n == Len(c.nums)
        total == SumSeq(c.nums)
    IN  [num |-> SumSeq([k \in DOMAIN c.nums |->
                            (n * c.nums[k] - total) * (n * c.nums[k] - total)]),
         den |-> c.den * c.den * n * n * (n - 1)]

\* sigma > 0, which nan is not
Positive(v) == v.den > 0 /\ v.num > 0

\* if sigma > 0: c /= sigma
Scale(c, v) ==
    [nums |-> c.nums, den |-> c.den, divided |-> Positive(v),
     sigma2 |-> IF Positive(v) THEN v ELSE [num |-> 0, den |-> 0]]

Normalized(mu, tr, te) ==
    LET ctr == Minus(tr, mu)
        cte == Minus(te, mu)
        v == Variance(ctr)
    IN  [train |-> Scale(ctr, v), test |-> Scale(cte, v)]

\* the mean is taken over the train and the test rows together
Mut_normalize_by_train(tr, te) == Normalized(Mean(tr \o te), tr, te)

\* mu = train[...].mean(); both frames centered by mu; sigma from train
_normalize_by_train(tr, te) == Normalized(Mean(tr), tr, te)

InitNorm ==
    /\ ntrain \in Columns(MaxTrainRows)
    /\ ntest \in Columns(MaxTestRows)
    /\ ntest_alt \in Columns(MaxTestRows)
    /\ nout = <<>> /\ nout_alt = <<>> /\ npc = "start"
    /\ RunIdle /\ TrainIdle /\ SuiteIdle

\* train, test = _normalize_by_train(train, test)
Normalize ==
    /\ npc = "start"
    /\ nout' = _normalize_by_train(ntrain, ntest)
    /\ npc' = "first"
    /\ UNCHANGED <<ntrain, ntest, ntest_alt, nout_alt, svars, tvars, inputs,
                   locals, history>>

\* the same train rows normalized together with the other test rows
NormalizeAlt ==
    /\ npc = "first"
    /\ nout_alt' = _normalize_by_train(ntrain, ntest_alt)
    /\ npc' = "both"
    /\ UNCHANGED <<ntrain, ntest, ntest_alt, nout, svars, tvars, inputs,
                   locals, history>>

NextNorm == Normalize \/ NormalizeAlt

SpecNorm == InitNorm /\ [][NextNorm]_vars

\* ------------------------------------------------- claims on the partition
\* floor(N * s) and round(1 / s) as the claims write them
ClaimFloor == (N * split[1]) \div split[2]
ClaimRound == PyRound(split[2], split[1])
FoldsKnown == pc \in {"fold", "accessed"}
Diff(i) == fold_starts[i + 1] - fold_starts[i]
BigFolds == {i \in 1..(Len(fold_starts) - 1) : Diff(i) = ClaimFloor + 1}

\* what C6 says of the boundaries apart from the count of larger folds
C6Shape ==
    /\ Len(fold_starts) = ClaimRound + 1
    /\ fold_starts[1] = 0
    /\ \A i \in 1..(Len(fold_starts) - 1) :
          /\ fold_starts[i] <= fold_starts[i + 1]
          /\ Diff(i) \in {ClaimFloor, ClaimFloor + 1}

\* C6 as stated: the boundaries of _determine_folds are non-decreasing, of
\* length round(1/s)+1, start at 0, have consecutive differences in
\* {floor(N*s), floor(N*s)+1}, and the number of folds with the larger
\* difference equals N - floor(N*s)*round(1/s).
C6_Original ==
    FoldsKnown =>
        /\ C6Shape
        /\ Cardinality(BigFolds) = N - ClaimFloor * ClaimRound

\* C6 amended: as C6, but the number of folds with the larger difference is
\* N - floor(N*s)*round(1/s) limited to the range 0 .. round(1/s).
C6_Amended ==
    FoldsKnown =>
        /\ C6Shape
        /\ Cardinality(BigFolds)
             = Min(Max(N - ClaimFloor * ClaimRound, 0), ClaimRound)

\* boundaries computed for an input whose remainder exceeds the fold count,
\* with every fold taking the larger size
C6_Witness ==
    /\ FoldsKnown
    /\ N - ClaimFloor * ClaimRound > ClaimRound
    /\ ClaimRound >= 2
    /\ Cardinality(BigFolds) = ClaimRound

\* C7: the test segments _access_fold yields for folds 0..n_folds-1 are
\* contiguous, pairwise non-overlapping and cover the dataset exactly once:
\* every row is in the test segment of exactly one fold.
C7_Partition ==
    (pc = "fold" /\ fold = n_folds) =>
        /\ \A k \in 1..Len(segments) : \A i \in 1..(Len(segments[k]) - 1) :
              segments[k][i + 1] = segments[k][i] + 1
        /\ \A row \in 0..(N - 1) :
              Cardinality({k \in 1..Len(segments) : row \in Range(segments[k])})
                = 1

\* the rows at positions lo .. hi-1 that exist, in order
Rows(lo, hi) ==
    [i \in 1..Max(0, Min(hi, N) - Min(lo, N)) |-> Min(lo, N) + i - 1]

\* C8: for every fold index f, _access_fold returns train and test that are
\* disjoint and together hold every row; test is the rows in
\* [boundaries[f], boundaries[f+1]) in original order, train the rows before
\* boundaries[f] followed by the rows at or after boundaries[f+1].
C8_AccessFold ==
    (pc = "accessed") =>
        /\ Range(train) \cap Range(test) = {}
        /\ Range(train) \cup Range(test) = 0..(N - 1)
        /\ Len(train) + Len(test) = N
        /\ test = Rows(fold_starts[fold + 1], fold_starts[fold + 2])
        /\ train = Rows(0, fold_starts[fold + 1])
                     \o Rows(fold_starts[fold + 2], N)

\* a middle fold: rows before it and rows after it are both in train
C8_Witness ==
    /\ pc = "accessed"
    /\ fold >= 1
    /\ Len(test) >= 2
    /\ \E i \in 1..Len(train) : train[i] < test[1]
    /\ \E i \in 1..Len(train) : train[i] > test[Len(test)]

\* ------------------------------------------- claims on run_experiment
ErrorsOf(f) ==
    Cardinality({i \in 1..Len(results_list) :
                    IsError(results_list[i]) /\ results_list[i].fold = f})
SuccessesOf(f) ==
    Cardinality({i \in 1..Len(results_list) :
                    IsSuccess(results_list[i]) /\ results_list[i].fold = f})
Last(q) == q[Len(q)]

\* C1: whenever an attempt of a fold raises, at any point, and the errors
\* recorded for the fold stay below error_repeats, the runner appends one
\* error record, increments n_errors and attempts the whole fold again.
C1_RetryFromScratch ==
    [][(pc = "except" /\ n_errors + 1 < error_repeats)
        => /\ Len(results_list') = Len(results_list) + 1
           /\ IsError(Last(results_list'))
           /\ Last(results_list').fold = fold
           /\ n_errors' = n_errors + 1
           /\ pc' = "while"
           /\ ~succeed' /\ n_errors' < error_repeats]_vars

\* every exception of the run so far was raised by the trainer, in fold f,
\* and no trainer call of fold f returned: what a run shows of a trainer
\* that raises on every call for fold f and for no other fold
RaisesOnlyOn(f) ==
    /\ trainer_raised \subseteq {f}
    /\ f \notin trainer_returned
    /\ other_raised = {}

C2Counts(f) ==
    /\ ErrorsOf(f) = error_repeats
    /\ SuccessesOf(f) = 0
    /\ \A g \in (0..(n_folds - 1)) \ {f} : SuccessesOf(g) = repeats

\* C2 as stated: with cv and a trainer that raises on every call for fold f
\* only, the result holds exactly error_repeats error records of fold f, no
\* success record of fold f and exactly repeats success records of every
\* other fold.
C2_Original ==
    (pc = "done" /\ cv) =>
        \A f \in 0..(n_folds - 1) : RaisesOnlyOn(f) => C2Counts(f)

\* C2 amended: the same, provided error_repeats >= 1.
C2_Amended ==
    (pc = "done" /\ cv /\ error_repeats >= 1) =>
        \A f \in 0..(n_folds - 1) : RaisesOnlyOn(f) => C2Counts(f)

\* a returned run of three folds whose trainer raised on every call of
\* fold 1 and on no other
C2_Witness ==
    /\ pc = "done" /\ cv /\ error_repeats >= 2 /\ repeats >= 2
    /\ n_folds = 3
    /\ RaisesOnlyOn(1) /\ trainer_raised = {1}
    /\ ErrorsOf(1) = error_repeats

\* C3: a configuration error raised by the trainer (an unknown kind, an
\* unknown optimizer) leaves run_experiment at once: it is never handled by
\* the except clause and never becomes an error record.
C3_ConfigFatal ==
    /\ exc = "ValueError" => pc = "raised"
    /\ \A i \in 1..Len(results_list) :
          IsError(results_list[i]) => results_list[i].error # "ValueError"

\* C4: a fold whose error count reaches error_repeats has no success record.
C4_ExhaustedOnlyErrors ==
    \A f \in 0..(n_folds - 1) :
        ErrorsOf(f) >= error_repeats => SuccessesOf(f) = 0

\* C5: run_experiment never raises, and with cv and error_repeats >= 1 it
\* returns, having attempted every fold 0..n_folds-1.
C5_ReturnsAfterEveryFold ==
    (cv /\ error_repeats >= 1) =>
        /\ [](pc # "raised")
        /\ <>(pc = "done" /\ attempted = 0..(n_folds - 1))

NoRaise == trainer_raised = {} /\ other_raised = {}
Processed == IF cv THEN n_folds ELSE Min(1, n_folds)

\* one success record per (processed fold, repeat), fold by fold, with n the
\* number of rows and d the number of feature columns
C9Expected ==
    [i \in 1..(Processed * repeats) |->
        [fold |-> (i - 1) \div repeats, repeat |-> (i - 1) % repeats,
         n |-> N, d |-> nfeat]]

\* C9 as stated: when nothing raises, the result is exactly one success
\* record per (processed fold, repeat) in lexicographic order, all folds
\* with cv and fold 0 alone without, each with n = rows and d = features.
C9_Original ==
    (pc = "done" /\ NoRaise) => results_list = C9Expected

\* C9 amended: the same, provided error_repeats >= 1.
C9_Amended ==
    (pc = "done" /\ NoRaise /\ error_repeats >= 1) =>
        results_list = C9Expected

\* a returned run of three folds and two repeats in which nothing raised
C9_Witness ==
    /\ pc = "done" /\ NoRaise /\ cv
    /\ n_folds = 3 /\ repeats = 2
    /\ Len(results_list) = 6

\* C15: every error record carries the fold of the failing attempt, n equal
\* to the number of dataset rows and d equal to the feature count, the d of
\* the success records.
C15_ErrorRecordFields ==
    \A i \in 1..Len(results_list) :
        IsError(results_list[i]) =>
            /\ results_list[i].fold \in attempted
            /\ results_list[i].n = N
            /\ results_list[i].d = nfeat

\* C18: run_experiment terminates and returns for every repeats >= 0 and
\* every error_repeats >= 0, whatever the trainer calls do.
C18_Terminates == <>(pc = "done")

\* C20: the success records of each fold carry the repeat indices 0..m-1,
\* m <= repeats, in increasing order: no (fold, repeat) pair appears twice,
\* also when the fold was attempted again after errors.
C20_RepeatPrefix ==
    \A i \in 1..Len(results_list) :
        IsSuccess(results_list[i]) =>
            /\ results_list[i].repeat < repeats
            /\ results_list[i].repeat
                 = Cardinality({j \in 1..(i - 1) :
                       /\ IsSuccess(results_list[j])
                       /\ results_list[j].fold = results_list[i].fold})

\* a fold attempted again after an error that then completed two repeats
C20_Witness ==
    \E f \in 0..(n_folds - 1) : ErrorsOf(f) >= 1 /\ SuccessesOf(f) = 2

\* C21: n_errors counts the errors of the current fold only; with
\* repeats >= 1 and error_repeats >= 1 a fold has at most error_repeats error
\* records, at most repeats success records and at most
\* repeats + error_repeats - 1 calls of the trainer; with error_repeats = 0
\* the trainer is never called and no record is produced.
C21_PerFoldBudget ==
    /\ pc \in {"while", "try", "repeat", "except"} => n_errors = ErrorsOf(fold)
    /\ (repeats >= 1 /\ error_repeats >= 1) =>
          /\ \A f \in 0..(n_folds - 1) :
                /\ ErrorsOf(f) <= error_repeats
                /\ SuccessesOf(f) <= repeats
          /\ trainer_calls <= repeats + error_repeats - 1
    /\ error_repeats = 0 => trainer_calls = 0 /\ results_list = <<>>

\* a later fold that used its whole budget of calls and of errors, after a
\* fold that had errors of its own
C21_Witness ==
    /\ fold >= 1
    /\ repeats = 2 /\ error_repeats = 2
    /\ ErrorsOf(0) >= 1
    /\ ErrorsOf(fold) = error_repeats
    /\ trainer_calls = repeats + error_repeats - 1

\* ------------------------------------------- claims on train_exact_gp
\* C10: after restarts 0..random_restarts-1, the candidate handed to the
\* final fit is the one with the lowest objective value, and of several
\* with the lowest value the earliest.
C10_LowestEarliest ==
    (/\ tpc = "final"
     /\ ~skip_random_restart
     /\ random_restarts >= 1
     /\ \E j \in 1..Len(losses) : losses[j].k # "nan")
    =>  /\ model # None
        /\ losses[model + 1].k # "nan"
        /\ \A j \in 1..Len(losses) : ~FLess(losses[j], losses[model + 1])
        /\ \A j \in 1..model : losses[j] # losses[model + 1]

\* C19: when the restart phase ran with random_restarts >= 1 and no candidate
\* raised, the final fit receives a model that is not None, whatever the
\* objective values were (infinite and nan included).
C19_ModelNotNone ==
    (tpc = "final" /\ ~skip_random_restart /\ random_restarts >= 1)
        => model # None

\* C16: with restarts skipped one candidate is constructed and the only
\* convergence call is the full one, on that candidate, with the caller's
\* options; otherwise random_restarts candidates are constructed, candidate i
\* gets the i-th call, truncated to init_iters, and the one full call is made
\* on the retained candidate, one of those constructed.
C16Calls ==
    IF skip_random_restart
    THEN /\ created <= 1
         /\ Len(conv_calls) <= 1
         /\ \A i \in 1..Len(conv_calls) :
                conv_calls[i] = [model |-> 0, max_iter |-> max_iter]
    ELSE /\ created <= random_restarts
         /\ Len(conv_calls) <= random_restarts + 1
         /\ \A i \in 1..Len(conv_calls) :
                IF i <= random_restarts
                THEN conv_calls[i] = [model |-> i - 1, max_iter |-> init_iters]
                ELSE /\ conv_calls[i].max_iter = max_iter
                     /\ conv_calls[i].model = best_model

C16Complete ==
    tpc \in {"fitted", "done"} =>
        /\ created = IF skip_random_restart THEN 1 ELSE random_restarts
        /\ Len(conv_calls) = created + IF skip_random_restart THEN 0 ELSE 1

C16_CallCounts ==
    /\ C16Calls
    /\ C16Complete
    /\ \A i \in 1..Len(conv_calls) :
           conv_calls[i].model \in 0..(created - 1)

\* ------------------------------------ claims on the suite and the ablation
IsPrefix(a, b) == Len(a) <= Len(b) /\ SubSeq(b, 1, Len(a)) = a

\* the list each tag of the contract stands for
C11Expected(tag) ==
    CASE tag = "small" -> get_small_datasets
      [] tag \in {"small-to-medium", "smalltomedium"}
           -> get_small_datasets \o get_medium_datasets
      [] tag = "medium" -> get_medium_datasets
      [] tag = "big" -> get_big_datasets
      [] tag = "all"
           -> get_small_datasets \o get_medium_datasets \o get_big_datasets

C11Resolves(tags) ==
    spc # "resolve" =>
        IF dataset_group \in tags
        THEN /\ sexc # "ValueError"
             /\ datasets = C11Expected(dataset_group)
        ELSE /\ sexc = "ValueError"
             /\ spc = "raised"
             /\ runs = <<>>

\* C11 as stated: "small", "medium", "big", "small-to-medium" and "all" each
\* resolve to their list, every other tag fails before any experiment runs.
C11_Original ==
    C11Resolves({"small", "medium", "big", "small-to-medium", "all"})

\* C11: run_experiment_suite resolves the tags "small", "medium", "big",
\* "smalltomedium" and "all" to their ordered lists (smalltomedium: small then
\* medium; all: small, medium, big) and fails with ValueError, before any
\* experiment runs, on every other tag, "small-to-medium" included.
C11_Amended ==
    C11Resolves({"small", "medium", "big", "smalltomedium", "all"})

C11_Witness ==
    /\ dataset_group = "smalltomedium"
    /\ spc = "loop"
    /\ Len(datasets) = 23
    /\ datasets[15] = "concrete"

\* the run_experiment calls that returned
Completed == IF sexc = "Exception" THEN SubSeq(runs, 1, Len(runs) - 1) ELSE runs

\* C12: the checkpoint is rewritten after each completed dataset, pass by
\* pass in list order; it always equals the combined table as of the last
\* completed dataset, every write extends the table it replaces without
\* changing a row, and after a raise it holds the rows of all completed
\* datasets.
C12_Checkpoint ==
    /\ writes = Len(Completed)
    /\ \A k \in 1..Len(Completed) :
           Completed[k] = datasets[((k - 1) % Len(datasets)) + 1]
    /\ IsPrefix(prev_checkpoint, checkpoint)
    /\ writes > 0 =>
          /\ checkpoint = df
          /\ Len(prev_checkpoint) = Len(checkpoint) - result_rows
    /\ Len(checkpoint) = writes * result_rows
    /\ \A k \in 1..Len(Completed) : \A r \in 1..result_rows :
           checkpoint[(k - 1) * result_rows + r]
               = [row |-> r, dataset |-> Completed[k]]

\* a run that raised in its second pass, after at least one full pass
C12_Witness ==
    /\ sexc = "Exception"
    /\ pass >= 1
    /\ di >= 2
    /\ result_rows >= 1
    /\ checkpoint # prev_checkpoint

\* the sweep values 1, 2, 3, 5, 8, ... in order
FibJ == <<1, 2, 3, 5, 8, 13, 21>>

\* the J values run for a dataset, in order
JsOf(name) ==
    LET own == SelectSeq(runs, LAMBDA r : r.dataset = name)
    IN  [k \in DOMAIN own |-> own[k].J]

\* C13: the J values run for each dataset are 1, 2, 3, 5, 8, ... from the
\* start, strictly increasing, each below max_j; a dataset whose sweep has
\* ended has run every such value below max_j; nothing runs when max_j <= 1.
C13_Schedule ==
    /\ max_j <= 1 => runs = <<>>
    /\ \A d \in 1..Len(datasets) :
          LET js == JsOf(datasets[d])
          IN  /\ \A k \in 1..Len(js) : js[k] = FibJ[k] /\ js[k] < max_j
              /\ \A k \in 2..Len(js) : js[k - 1] < js[k]
              /\ (d < di \/ spc = "done") =>
                    Len(js) = Cardinality({k \in DOMAIN FibJ :
                                              FibJ[k] < max_j})
              /\ d > di => js = <<>>

\* both datasets swept with max_j = 9: 1, 2, 3, 5, 8 twice
C13_Witness ==
    /\ spc = "done"
    /\ Len(datasets) = 2
    /\ max_j = 9
    /\ JsOf(datasets[2]) = <<1, 2, 3, 5, 8>>

\* the sweep steps whose run_experiment call returned
Stepped == IF sexc = "Exception" THEN SubSeq(runs, 1, Len(runs) - 1) ELSE runs

\* C17: the table is written to the output file after every sweep step, and
\* every write keeps all rows of the write before it, hence of every earlier
\* write, across steps and across datasets.
C17_Supersets ==
    /\ writes = Len(Stepped)
    /\ IsPrefix(prev_checkpoint, checkpoint)
    /\ \A k \in 1..Len(prev_checkpoint) :
           \E m \in 1..Len(checkpoint) : checkpoint[m] = prev_checkpoint[k]
    /\ writes > 0 => checkpoint = df
    /\ Len(checkpoint) = writes * result_rows
    /\ \A k \in 1..Len(Stepped) : \A r \in 1..result_rows :
           LET row == checkpoint[(k - 1) * result_rows + r]
           IN  /\ row.dataset = Stepped[k].dataset
               /\ row.J = Stepped[k].J
               /\ row.row = r

\* a write in the second dataset's sweep, on top of the first dataset's rows
C17_Witness ==
    /\ di = 2
    /\ writes >= 4
    /\ result_rows >= 1
    /\ checkpoint # prev_checkpoint
    /\ checkpoint[1].dataset # checkpoint[Len(checkpoint)].dataset

\* ------------------------------------------------ claims on the normalizer
\* the sample variance of the train column in closed form
C14Var(tr) ==
    LET n == Len(tr)
        total == SumSeq(tr)
    IN  [num |-> n * n * SumSeq([k \in DOMAIN tr |->
                              (n * tr[k] - total) * (n * tr[k] - total)]),
         den |-> n * n * n * n * (n - 1)]

\* a column transformed by the mean and standard deviation of tr alone
C14Transform(tr, col) ==
    LET n == Len(tr)
        v == C14Var(tr)
        sd == n >= 2 /\ v.num > 0
    IN  [nums |-> [k \in DOMAIN col |-> n * col[k] - SumSeq(tr)],
         den |-> n,
         divided |-> sd,
         sigma2 |-> IF sd THEN v ELSE [num |-> 0, den |-> 0]]

\* C14: for a fixed train column the returned train column is the same for
\* every test column, and every test value is centered and scaled by the mean
\* and standard deviation of the train column only.
C14_LeakageSafe ==
    /\ npc \in {"first", "both"} =>
          /\ nout.train = C14Transform(ntrain, ntrain)
          /\ nout.test = C14Transform(ntrain, ntest)
    /\ npc = "both" =>
          /\ nout_alt.train = nout.train
          /\ nout_alt.test = C14Transform(ntrain, ntest_alt)

\* two different test columns normalized with a train column that is scaled
C14_Witness ==
    /\ npc = "both"
    /\ ntest # <<>> /\ ntest_alt # <<>>
    /\ ntest # ntest_alt
    /\ nout.train.divided
    /\ nout.test # nout_alt.test

\* ------------------------------------------- claims on the option dictionaries
\* C22: the two dictionaries the caller passes to train_exact_gp hold at every
\* moment what they held when the first call began, so every later call by
\* run_experiment receives the same keys and values as the first.
C22_OptionsUnchanged ==
    /\ \A c \in 1..Len(passed) : passed[c] = passed[1]
    /\ passed # <<>> =>
          <<heap[CallerModelKwargs], heap[CallerTrainKwargs]>> = passed[1]

\* a second call, after a first that replaced 'd' in its model options and
\* popped its training options, a candidate's kwargs popped as well
C22_Witness ==
    /\ Len(passed) = 2
    /\ passed[1][1].k = "d"
    /\ train_kwargs # 0
    /\ "optimizer" \notin DOMAIN heap[train_kwargs]
    /\ heap[model_kwargs].k # "d"
    /\ heap[6] # NoDict
    /\ "noise_prior" \notin DOMAIN heap[6]

=============================================================================
